---- MODULE Spec2Model ----
(***************************************************************************)
(* A model of the well-stated Store (src/v1): the registries of            *)
(* extensions, and Store.apply() with its observers, guards, handlers and  *)
(* subscribers.                                                            *)
(*                                                                         *)
(* State values live in a heap of objects, so that aliasing between the    *)
(* store's live state, the backup taken by apply() and the values handed   *)
(* to the callbacks is explicit.  A callback is user code: while one is    *)
(* running, the environment chooses what it does (write through the value  *)
(* it was given, call store.apply() again, return, throw).                 *)
(***************************************************************************)
EXTENDS Integers, Sequences, FiniteSets, TLC

VARIABLES
    store,          \* the Store object: _state, guards, handlers, observers, subscribers
    heap,           \* the objects holding state values; a reference is an index
    stack,          \* the apply() calls in progress, the innermost last
    done,           \* what the apply() call that completed in the last step did
    left,           \* how many operations the application may still start
    unsubs,         \* the unsubscribe functions that add() has returned
    op,             \* what the add() or unsubscribe call of the last step did
    caller          \* the value the Store was constructed with, if the
                    \* application still holds it (0: it does not)

vars == <<store, heap, stack, done, left, unsubs, op, caller>>

----------------------------------------------------------------------------
(* Bounds *)

\* the operations (apply() calls, writes to a state value) of one behaviour
MaxOps == 3

\* the apply() calls in progress at one time
MaxDepth == 2

----------------------------------------------------------------------------
(* Mutations, topics, extensions *)

Mutations == {"MutationA", "MutationB"}

\* the names without the class of every object
WithoutObject(mutation) == <<mutation, "Mutation">>

\* the names of every mutation class there is
OfEveryMutation(mutation) == <<"MutationA", "MutationB", "Mutation", "Object">>

\* the names from the most general class to the class of the mutation
MostGeneralFirst(mutation) == <<"Object", "Mutation", mutation>>

\* the names with the class of every object first
ObjectFirst(mutation) == <<"Object", mutation, "Mutation">>

\* the name of the class of the mutation only
ClassOnly(mutation) == <<mutation>>

\* the class names of a mutation, most specific first
getClassNames(mutation) == <<mutation, "Mutation", "Object">>

NoEntry == "none"

\* the registry of the Store that a stage dispatches to
RegistryOf(stage) == stage

----------------------------------------------------------------------------
(* Failures *)

NoError == [kind |-> "none", call |-> 0, stage |-> "none", entry |-> NoEntry]

\* new Error(...) thrown by the callback `entry` that call `id` invoked
ErrorOf(id, stage, entry) ==
    [kind |-> "Error", call |-> id, stage |-> stage, entry |-> entry]

\* the AppError that the callback `entry` passes to onError
AppErrorOf(id, stage, entry) ==
    [kind |-> "AppError", call |-> id, stage |-> stage, entry |-> entry]

UnhandledMutationError(id) ==
    [kind |-> "UnhandledMutationError", call |-> id, stage |-> "handlers",
     entry |-> NoEntry]

----------------------------------------------------------------------------
(* The machine: the variables a step of the store reads and writes *)

NoCallback == [entry |-> NoEntry, pending |-> NoError, onError |-> "none"]

NotDone ==
    [id |-> 0, mutation |-> "none", onUnhandledMutation |-> "none",
     onError |-> "none", pre |-> {}, post |-> {}, e |-> NoError, failedIn |-> "none",
     raised |-> NoError, unhandled |-> 0, called |-> <<>>,
     began |-> <<>>, updaterFns |-> <<>>]

Cur == [store |-> store, heap |-> heap, stack |-> stack, done |-> NotDone,
        caller |-> caller]

\* the references the program still holds
Roots(c) ==
    {c.store._state, c.caller} \cup
    UNION {{c.stack[i].initialState, c.stack[i].state, c.stack[i].outcome} :
              i \in 1..Len(c.stack)}

Max(S) == CHOOSE n \in S : \A m \in S : m <= n

\* an object nothing refers to any more is gone
Collect(c) ==
    LET roots == Roots(c) \ {0}
    IN [c EXCEPT !.heap = [i \in 1..Max(roots) |->
                              IF i \in roots THEN c.heap[i] ELSE {}]]

Becomes(c) ==
    LET d == Collect(c) IN
    /\ store' = d.store
    /\ heap' = d.heap
    /\ stack' = d.stack
    /\ done' = d.done
    /\ caller' = d.caller

Top(c) == c.stack[Len(c.stack)]

SetTop(c, f) == [c EXCEPT !.stack[Len(c.stack)] = f]

\* the reference that the next new object gets
NewRef(c) ==
    LET roots == Roots(c)
    IN CHOOSE r \in 1..(Len(c.heap) + 1) :
          r \notin roots /\ \A q \in 1..(r - 1) : q \in roots

\* copy(): a deep copy is a new object with an equal value
copy(c, ref) ==
    LET r == NewRef(c)
        value == c.heap[ref]
    IN [c EXCEPT !.heap = IF r > Len(c.heap) THEN Append(c.heap, value)
                          ELSE [c.heap EXCEPT ![r] = value]]

----------------------------------------------------------------------------
(* StoreExtensions.add / InterestsRegistry.add and the functions they return *)

NoOp == [kind |-> "none", registry |-> "none", extension |-> NoEntry,
         names |-> <<>>, threw |-> FALSE, again |-> FALSE, before |-> <<>>]

\* a step that calls neither add() nor an unsubscribe function
NoRegistryCall == op' = NoOp /\ UNCHANGED unsubs

\* the index an extension is never found at
NeverFound(list, extension) == 0

\* list.indexOf(extension), counted from 1; 0 when it is not in the list
IndexOf(list, extension) ==
    IF \E i \in 1..Len(list) : list[i] = extension
    THEN CHOOSE i \in 1..Len(list) :
            /\ list[i] = extension
            /\ \A j \in 1..(i - 1) : list[j] # extension
    ELSE 0

\* list.splice(index, 1)
Splice(list, index) ==
    SubSeq(list, 1, index - 1) \o SubSeq(list, index + 1, Len(list))

\* the function _registerExtensionForMutation() returns
Unsubscribe(extensions, mutationName, extension) ==
    LET index == IndexOf(extensions[mutationName], extension)
    IN IF index > 0
       THEN [extensions EXCEPT ![mutationName] = Splice(@, index)]
       ELSE extensions

\* the function add() returns: unsubs.forEach((unsub) => unsub())
RECURSIVE UnsubscribeAll(_, _, _)
UnsubscribeAll(extensions, mutationNames, extension) ==
    IF mutationNames = <<>> THEN extensions
    ELSE UnsubscribeAll(Unsubscribe(extensions, Head(mutationNames), extension),
                        Tail(mutationNames), extension)

\* add(extension, ...mutationNames): this._extensions[mutationName].push()
\* throws a TypeError when the registry holds no list for mutationName
RECURSIVE add(_, _, _)
add(extensions, extension, mutationNames) ==
    IF mutationNames = <<>>
    THEN [extensions |-> extensions, threw |-> FALSE]
    ELSE IF Head(mutationNames) \notin DOMAIN extensions
    THEN [extensions |-> extensions, threw |-> TRUE]
    ELSE add([extensions EXCEPT ![Head(mutationNames)] = Append(@, extension)],
             extension, Tail(mutationNames))

\* the unsubscribe function of one add(), as the application holds it
Unsub(registry, extension, mutationNames) ==
    [registry |-> registry, extension |-> extension, names |-> mutationNames,
     calls |-> 0, at |-> 0]

----------------------------------------------------------------------------
(* StoreExtensions.forEach / InterestsRegistry.forEach *)

\* the list of a topic, the last extension added first
LastAddedFirst(extensions, name) ==
    IF name \in DOMAIN extensions
    THEN [i \in 1..Len(extensions[name]) |->
            extensions[name][Len(extensions[name]) + 1 - i]]
    ELSE <<>>

\* this._extensions[name] ?? []
ListFor(extensions, name) ==
    IF name \in DOMAIN extensions THEN extensions[name] ELSE <<>>

\* the extensions registered for the topics, topic by topic
RECURSIVE ListsFor(_, _)
ListsFor(extensions, mutationNames) ==
    IF mutationNames = <<>> THEN <<>>
    ELSE ListFor(extensions, Head(mutationNames))
            \o ListsFor(extensions, Tail(mutationNames))

\* the log of a call: the iteration of a topic's list begins
\* (with the topic's list as it is then and, for the first topic, the lists
\* of all the topics of the mutation)
Began(f, name, extensions) ==
    [stage |-> f.stage, name |-> name, list |-> ListFor(extensions, name),
     all |-> IF name = getClassNames(f.mutation)[1]
             THEN ListsFor(extensions, getClassNames(f.mutation))
             ELSE <<>>]

\* the topic whose list the frame is iterating
NameAt(f) ==
    IF f.ti \in 1..Len(getClassNames(f.mutation))
    THEN getClassNames(f.mutation)[f.ti] ELSE "none"

\* StoreExtensions.forEach: move to the next extension to call. Each topic's
\* list is copied (slice) when its iteration begins.
RECURSIVE ExtensionsSeek(_, _)
ExtensionsSeek(f, extensions) ==
    LET mutationNames == getClassNames(f.mutation) IN
    IF f.k < Len(f.snap)
    THEN [f EXCEPT !.cur = f.snap[f.k + 1]]
    ELSE IF f.ti >= Len(mutationNames)
    THEN [f EXCEPT !.ti = Len(mutationNames) + 1, !.cur = NoEntry]
    ELSE ExtensionsSeek(
            [f EXCEPT !.began = Append(@, Began(f, mutationNames[f.ti + 1],
                                                extensions)),
                      !.ti = f.ti + 1,
                      !.snap = ListFor(extensions, mutationNames[f.ti + 1]),
                      !.len = Len(ListFor(extensions, mutationNames[f.ti + 1])),
                      !.k = 0],
            extensions)

\* InterestsRegistry.forEach: the topic's own array is iterated. Array.forEach
\* fixes the number of indexes when it starts and skips an index that is no
\* longer in the array when it gets there.
RECURSIVE InterestsSeek(_, _)
InterestsSeek(f, theList) ==
    LET topics == getClassNames(f.mutation)
        interests == IF f.ti >= 1 /\ f.ti <= Len(topics)
                     THEN ListFor(theList, topics[f.ti]) ELSE <<>>
    IN
    IF f.k < f.len
    THEN IF f.k < Len(interests)
         THEN [f EXCEPT !.cur = interests[f.k + 1]]
         ELSE InterestsSeek([f EXCEPT !.k = f.k + 1], theList)
    ELSE IF f.ti >= Len(topics)
    THEN [f EXCEPT !.ti = Len(topics) + 1, !.cur = NoEntry]
    ELSE InterestsSeek(
            [f EXCEPT !.began = Append(@, Began(f, topics[f.ti + 1], theList)),
                      !.ti = f.ti + 1,
                      !.len = Len(ListFor(theList, topics[f.ti + 1])),
                      !.k = 0],
            theList)

\* the registry each stage of Store.apply() dispatches through
Seek(f, s) ==
    IF f.stage = "guards"
    THEN InterestsSeek(f, s.guards)
    ELSE ExtensionsSeek(f, s[RegistryOf(f.stage)])

----------------------------------------------------------------------------
(* Store.apply() *)

\* the handlers called before the guards
HandlersBeforeGuards(stage) ==
    CASE stage = "observers" -> "handlers"
      [] stage = "handlers" -> "guards"
      [] stage = "guards" -> "subscribers"
      [] stage = "subscribers" -> "outcome"

\* the stage that follows `stage` in Store.apply()
NextStage(stage) ==
    CASE stage = "observers" -> "guards"
      [] stage = "guards" -> "handlers"
      [] stage = "handlers" -> "subscribers"
      [] stage = "subscribers" -> "outcome"

\* a pass that begins with extensionCalled set
CalledFromTheStart(f, stage, state) ==
    [f EXCEPT !.stage = stage, !.state = state, !.ti = 0, !.snap = <<>>,
              !.len = 0, !.k = 0, !.cur = NoEntry, !.extensionCalled = TRUE]

\* x.forEach(mutation, <state>, ...): the state argument is evaluated when the
\* call is made
Enter(f, stage, state) ==
    [f EXCEPT !.stage = stage, !.state = state, !.ti = 0, !.snap = <<>>,
              !.len = 0, !.k = 0, !.cur = NoEntry, !.extensionCalled = FALSE]

\* an outcome: the state the store holds, or the failure that was caught
StateOutcome(ref) == [state |-> ref, error |-> NoError]

\* the outcome of another failure
AnotherFailure(e) == [state |-> 0, error |-> [e EXCEPT !.kind = "StoreError"]]

ErrorOutcome(e) == [state |-> 0, error |-> e]

\* outcome instanceof AppError
IsAppError(outcome) ==
    outcome.error.kind \in {"UnhandledMutationError", "AppError"}

\* the outcome handed on as it is
NeverCopied(outcome) == FALSE

\* updateOutcome() copies an outcome that is not an AppError; copy() gives a
\* new object for a state value and the Error itself for an Error
ShouldCopy(outcome) == ~IsAppError(outcome) /\ outcome.error = NoError

\* the policy's return ignored
AlwaysThrows(onUnhandledMutation) == TRUE

\* the default onUnhandledMutation, THROW_THE_ERROR, throws what it is given;
\* a policy of the caller may return
Throws(onUnhandledMutation) == onUnhandledMutation = "THROW_THE_ERROR"

\* the failure wrapped in an Error of the Store
Wrapped(e) == IF e = NoError THEN e ELSE [e EXCEPT !.kind = "StoreError"]

\* throw e, at the end of the catch block
Rethrown(e) == e

\* the callbacks called last to first
LastUpdaterFirst(updaterFns, k) == updaterFns[Len(updaterFns) - k]

\* updaterFns.forEach: the callback called after k of them have been called
NextUpdater(updaterFns, k) == updaterFns[k + 1]

\* the try block caught what an outcome callback throws, too
TryToTheEnd(stage) == stage \in {"guards", "handlers", "subscribers", "outcome"}

\* the try block begun before the observers are called
TryFromTheStart(stage) ==
    stage \in {"observers", "guards", "handlers", "subscribers"}

\* the stages whose forEach() is called inside the try block of apply()
InTry(stage) == stage \in {"guards", "handlers", "subscribers"}

\* the { onError } that guards, handlers and subscribers are called with;
\* observers and outcome callbacks are given none
StoreOptions(f) ==
    IF InTry(f.stage) THEN [onError |-> f.onError] ELSE [onError |-> "none"]

\* call the extension the frame is positioned on
Invoke(c, f) ==
    LET g == [f EXCEPT !.k = f.k + 1,
                       !.extensionCalled = TRUE,
                       !.cb = [entry |-> f.cur, pending |-> NoError,
                               onError |-> StoreOptions(f).onError]]
    IN SetTop(c, [g EXCEPT !.called = Append(f.called,
                                    [stage |-> f.stage, entry |-> f.cur,
                                     name |-> NameAt(f), wrote |-> FALSE,
                                     nested |-> {},
                                     onError |-> StoreOptions(f).onError,
                                     reported |-> "none"])])

\* how a call ended: the catch block ran, an observer threw before the try
\* block, or the try block ran to its end
Ended(f) ==
    IF f.e # NoError THEN "rolled back"
    ELSE IF f.stage = "observers" THEN "not begun"
    ELSE "committed"

\* apply() returns, or throws `raised`, to its caller: the callback that
\* called it, when the call is a nested one
Leave(c, raised) ==
    LET f == Top(c)
        n == Len(c.stack)
        rest == SubSeq(c.stack, 1, n - 1)
        d == [id |-> f.id, mutation |-> f.mutation,
              onUnhandledMutation |-> f.onUnhandledMutation,
              onError |-> f.onError, pre |-> f.pre,
              post |-> c.heap[c.store._state], e |-> f.e,
              failedIn |-> f.failedIn, raised |-> raised,
              unhandled |-> f.unhandled, called |-> f.called,
              began |-> f.began, updaterFns |-> f.updaterFns]
        waiting == [rest[n - 1] EXCEPT
                      !.cb.pending = raised,
                      !.called[Len(rest[n - 1].called)].nested =
                          @ \cup {Ended(f)}]
    IN [c EXCEPT
            !.done = d,
            !.stack = IF n > 1 THEN [rest EXCEPT ![n - 1] = waiting] ELSE rest]

RECURSIVE Continue(_)
RECURSIVE UpdateOutcome(_, _)
RECURSIVE Catch(_, _)

\* apply() returning before the outcome callbacks are called
ReturnsUntold(c, outcome) == Leave(c, Rethrown(Top(c).e))

\* the function that observers.forEach() returns, called with the outcome;
\* when it returns, apply() returns or throws what it caught
UpdateOutcome(c, outcome) ==
    LET f == Top(c) IN
    IF Len(f.updaterFns) = 0
    THEN Leave(c, Rethrown(f.e))
    ELSE IF ShouldCopy(outcome)
    THEN Continue(SetTop(copy(c, outcome.state),
                         [Enter(f, "outcome", 0) EXCEPT !.outcome = NewRef(c),
                                                        !.told = outcome.error]))
    ELSE Continue(SetTop(c, [Enter(f, "outcome", 0) EXCEPT
                                 !.outcome = outcome.state,
                                 !.told = outcome.error]))

\* the failure of a handler caught after the subscribers have been called
SubscribersFirst(c, e) ==
    LET f == Top(c)
        failed == [f EXCEPT !.e = e, !.failedIn = f.stage]
    IN IF f.stage = "handlers"
       THEN Continue(SetTop(c, Enter(failed, "subscribers", c.store._state)))
       ELSE UpdateOutcome(SetTop([c EXCEPT !.store._state = f.initialState],
                                 failed),
                          ErrorOutcome(e))

\* the catch block of apply()
Catch(c, e) ==
    LET f == Top(c)
        rolledBack == [c EXCEPT !.store._state = f.initialState]
    IN UpdateOutcome(SetTop(rolledBack, [f EXCEPT !.e = e, !.failedIn = f.stage]),
                     ErrorOutcome(e))

\* run apply() on from where it stands to its next callback, or to its end
Continue(c) ==
    LET f == Top(c) IN
    IF f.stage = "outcome"
    THEN IF f.k < Len(f.updaterFns)
         THEN Invoke(c, [f EXCEPT !.cur = NextUpdater(f.updaterFns, f.k)])
         ELSE Leave(c, Rethrown(f.e))
    ELSE LET g == Seek(f, c.store) IN
         IF g.cur # NoEntry
         THEN Invoke(c, g)
         ELSE IF f.stage = "handlers" /\ ~g.extensionCalled
         THEN IF Throws(f.onUnhandledMutation)
              THEN Catch(SetTop(c, [g EXCEPT !.unhandled = g.unhandled + 1]),
                         UnhandledMutationError(f.id))
              ELSE Continue(SetTop(c,
                       [Enter(g, NextStage(f.stage), c.store._state)
                            EXCEPT !.unhandled = g.unhandled + 1]))
         ELSE IF NextStage(f.stage) = "outcome"
         THEN UpdateOutcome(SetTop(c, g), StateOutcome(c.store._state))
         ELSE Continue(SetTop(c, Enter(g, NextStage(f.stage), c.store._state)))

\* apply(mutation, { onUnhandledMutation, onError })
Begin(c, id, mutation, onUnhandledMutation, onError) ==
    LET backedUp == copy(c, c.store._state)
        initialState == NewRef(c)
        f == [id |-> id, mutation |-> mutation,
              onUnhandledMutation |-> onUnhandledMutation,
              onError |-> onError,
              initialState |-> initialState,
              pre |-> c.heap[c.store._state],
              stage |-> "observers", state |-> initialState,
              ti |-> 0, snap |-> <<>>, len |-> 0, k |-> 0, cur |-> NoEntry,
              extensionCalled |-> FALSE, updaterFns |-> <<>>,
              e |-> NoError, failedIn |-> "none", outcome |-> 0,
              told |-> NoError,
              unhandled |-> 0,
              called |-> <<>>, began |-> <<>>, cb |-> NoCallback]
    IN Continue([backedUp EXCEPT !.stack = Append(c.stack, f)])

----------------------------------------------------------------------------
(* The initial state: new Store(initialState, { guards, handlers, ... }) *)

NoExtensions == <<>>

OnePerTopic ==
    [name \in {"MutationA", "Mutation", "Object"} |->
        CASE name = "MutationA" -> <<"e1">>
          [] name = "Mutation" -> <<>>
          [] name = "Object" -> <<"e2">>]

TwoOnATopic ==
    [name \in {"MutationA"} |-> <<"e1", "e2">>]

OnObject ==
    [name \in {"Object"} |-> <<"e1">>]

Registries == {"observers", "guards", "handlers", "subscribers"}

\* one registry holds two extensions, the others hold one or none
Init ==
    /\ \E two \in Registries, xs \in {OnePerTopic, TwoOnATopic},
          ys \in {NoExtensions, OnObject} :
          store = [r \in Registries \cup {"_state"} |->
                      IF r = "_state" THEN 1 ELSE IF r = two THEN xs ELSE ys]
    /\ heap = << {} >>
    /\ stack = <<>>
    /\ done = NotDone
    /\ left = MaxOps
    /\ unsubs = <<>>
    /\ op = NoOp
    /\ caller = 0

----------------------------------------------------------------------------
(* Actions *)

InCallback == stack # <<>> /\ Top(Cur).cb.entry # NoEntry

\* store.apply(mutation, options), by the application or by a handler or
\* subscriber that is running
Apply(mutation, onUnhandledMutation, onError) ==
    /\ left > 0
    /\ Len(stack) < MaxDepth
    /\ \/ stack = <<>>
       \/ /\ InCallback
          /\ Top(Cur).stage \in {"handlers", "subscribers"}
          /\ Top(Cur).cb.pending = NoError
    /\ left' = left - 1
    /\ Becomes(Begin(Cur, Len(stack) + 1, mutation, onUnhandledMutation,
                      onError))
    /\ NoRegistryCall

\* the value the running callback can write through
Target(f) ==
    CASE f.stage = "observers" -> f.initialState
      [] f.stage = "outcome" -> f.outcome
      [] OTHER -> f.state

\* the running callback writes to the state value it was given
Write ==
    /\ InCallback
    /\ left > 0
    /\ LET f == Top(Cur)
           mark == [call |-> f.id, stage |-> f.stage, entry |-> f.cb.entry]
       IN /\ f.cb.pending = NoError
          /\ Target(f) # 0
          /\ mark \notin heap[Target(f)]
          /\ heap' = [heap EXCEPT ![Target(f)] = @ \cup {mark}]
          /\ stack' = [stack EXCEPT
                         ![Len(stack)].called[Len(f.called)].wrote = TRUE]
    /\ left' = left - 1
    /\ done' = NotDone
    /\ UNCHANGED <<store, caller>>
    /\ NoRegistryCall

\* the running callback returns
Return ==
    /\ InCallback
    /\ LET f == Top(Cur)
           g == [f EXCEPT !.cb = NoCallback,
                          !.updaterFns = IF f.stage = "observers"
                                         THEN Append(@, f.cb.entry) ELSE @]
       IN /\ f.cb.pending = NoError
          /\ Becomes(Continue(SetTop(Cur, g)))
    /\ UNCHANGED left
    /\ NoRegistryCall

\* the running callback throws: a new Error, or the one a nested apply() threw
Raise ==
    /\ InCallback
    /\ LET f == Top(Cur)
           err == IF f.cb.pending # NoError THEN f.cb.pending
                  ELSE ErrorOf(f.id, f.stage, f.cb.entry)
           g == [f EXCEPT !.cb = NoCallback]
       IN IF InTry(f.stage)
          THEN Becomes(Catch(SetTop(Cur, g), err))
          ELSE Becomes(Leave(SetTop(Cur, g), err))
    /\ UNCHANGED left
    /\ NoRegistryCall

\* the running callback catches what a nested apply() threw
CatchNested ==
    /\ InCallback
    /\ Top(Cur).cb.pending # NoError
    /\ stack' = [stack EXCEPT ![Len(stack)].cb.pending = NoError]
    /\ done' = NotDone
    /\ UNCHANGED <<store, heap, left, caller>>
    /\ NoRegistryCall

Next ==
    \/ \E m \in Mutations, p \in {"THROW_THE_ERROR", "RETURN"} :
          Apply(m, p, "THROW_THE_ERROR")
    \/ Write
    \/ Return
    \/ Raise
    \/ CatchNested

Spec == Init /\ [][Next]_vars

----------------------------------------------------------------------------
(* The registries at work: add() and the unsubscribe functions, called by the
   application between apply() calls and by the callbacks during them *)

\* the topic lists a registry is constructed with
EmptyLists == [name \in {"MutationA", "Object"} |-> <<>>]

\* the same extension added twice to a topic
AddedTwice == << <<"e1", <<"MutationA">> >>, <<"e1", <<"MutationA">> >> >>

\* two extensions on a topic and one on the topic of every mutation
AddedToTwoTopics ==
    << <<"e1", <<"MutationA">> >>, <<"e2", <<"MutationA">> >>,
       <<"e3", <<"Object">> >> >>

RECURSIVE Built(_, _, _)
\* the registry and the unsubscribe functions after a sequence of add() calls
Built(registry, extensions, adds) ==
    IF adds = <<>>
    THEN [extensions |-> extensions, unsubs |-> <<>>]
    ELSE LET first == Head(adds)
             rest == Built(registry,
                           add(extensions, first[1], first[2]).extensions,
                           Tail(adds))
         IN [rest EXCEPT !.unsubs =
                <<Unsub(registry, first[1], first[2])>> \o rest.unsubs]

\* new Store(initialState, { ... }) with one registry the application has
\* filled, or with new registries only
InitRegistry ==
    /\ \E registry \in Registries :
       \E b \in {Built(registry, EmptyLists, AddedTwice),
                 Built(registry, EmptyLists, AddedToTwoTopics),
                 Built(registry, NoExtensions, <<>>)} :
          /\ store = [r \in Registries \cup {"_state"} |->
                         IF r = "_state" THEN 1
                         ELSE IF r = registry THEN b.extensions
                         ELSE NoExtensions]
          /\ unsubs = b.unsubs
    /\ heap = << {} >>
    /\ stack = <<>>
    /\ done = NotDone
    /\ left = MaxOps
    /\ op = NoOp
    /\ caller = 0

\* the application, or the callback that is running, can make a call
CanCall ==
    /\ left > 0
    /\ stack = <<>> \/ (InCallback /\ Top(Cur).cb.pending = NoError)

TypeError(c) ==
    IF c.stack = <<>> THEN NoError
    ELSE [kind |-> "TypeError", call |-> Top(c).id, stage |-> Top(c).stage,
          entry |-> Top(c).cb.entry]

\* registry.add(extension, ...mutationNames)
CallAdd(registry, extension, mutationNames) ==
    /\ CanCall
    /\ LET r == add(store[registry], extension, mutationNames)
       IN /\ store' = [store EXCEPT ![registry] = r.extensions]
          /\ unsubs' = IF r.threw THEN unsubs
                       ELSE Append(unsubs,
                                   Unsub(registry, extension, mutationNames))
          /\ stack' = IF r.threw /\ stack # <<>>
                      THEN [stack EXCEPT ![Len(stack)].cb.pending =
                                            TypeError(Cur)]
                      ELSE stack
          /\ op' = [kind |-> "add", registry |-> registry,
                    extension |-> extension, names |-> mutationNames,
                    threw |-> r.threw, again |-> FALSE,
                    before |-> store[registry]]
    /\ left' = left - 1
    /\ done' = NotDone
    /\ UNCHANGED <<heap, caller>>

\* unsubs[i](): the function that an add() returned is called
CallUnsub(i) ==
    /\ CanCall
    /\ LET u == unsubs[i]
       IN /\ store' = [store EXCEPT ![u.registry] =
                          UnsubscribeAll(@, u.names, u.extension)]
          /\ unsubs' = [unsubs EXCEPT ![i] =
                          [u EXCEPT !.calls = IF u.calls < 2 THEN u.calls + 1
                                              ELSE u.calls,
                                    !.at = IF u.calls = 0 THEN Len(stack)
                                           ELSE u.at]]
          /\ op' = [kind |-> "unsubscribe", registry |-> u.registry,
                    extension |-> u.extension, names |-> u.names,
                    threw |-> FALSE, again |-> u.calls > 0,
                    before |-> store[u.registry]]
    /\ left' = left - 1
    /\ done' = NotDone
    /\ UNCHANGED <<heap, stack, caller>>

NextRegistry ==
    \/ \E m \in {"MutationA"}, p \in {"RETURN"} :
          Apply(m, p, "THROW_THE_ERROR")
    \/ Return
    \/ Raise
    \/ CatchNested
    \/ \E registry \in Registries, extension \in {"e1", "e4"},
          mutationNames \in {<<"MutationA">>, <<"Object">>} :
          CallAdd(registry, extension, mutationNames)
    \/ \E i \in 1..Len(unsubs) : CallUnsub(i)

SpecRegistry == InitRegistry /\ [][NextRegistry]_vars

----------------------------------------------------------------------------
(* What the properties are stated with *)

\* the order of the stages
Stages == <<"observers", "guards", "handlers", "subscribers", "outcome">>

StageNumber(stage) == CHOOSE i \in 1..Len(Stages) : Stages[i] = stage

InStageOrder(called) ==
    \A i, j \in 1..Len(called) :
        i < j => StageNumber(called[i].stage) <= StageNumber(called[j].stage)

RECURSIVE EntriesIn(_, _)
\* the extensions that a call invoked in one stage, in the order of the calls
EntriesIn(called, stage) ==
    IF called = <<>> THEN <<>>
    ELSE IF Head(called).stage = stage
         THEN <<Head(called).entry>> \o EntriesIn(Tail(called), stage)
         ELSE EntriesIn(Tail(called), stage)

IsPrefix(s, t) == Len(s) <= Len(t) /\ s = SubSeq(t, 1, Len(s))

\* the extensions registered for a mutation, in dispatch order
Registered(extensions, mutation) ==
    ListFor(extensions, getClassNames(mutation)[1])
        \o ListFor(extensions, getClassNames(mutation)[2])
        \o ListFor(extensions, getClassNames(mutation)[3])

Completed == done.id # 0

\* an observer's beforeMutationApplied threw: the pipeline never ran
ObserverThrew(d) == d.raised.stage = "observers" /\ d.raised.call = d.id

\* an observer's outcome callback threw
OutcomeCallbackThrew(d) == d.raised.stage = "outcome" /\ d.raised.call = d.id

\* the call got as far as its handlers
ReachedHandlers(d) == ~ObserverThrew(d) /\ d.failedIn # "guards"

Visible(stage) == \E mark \in heap[store._state] : mark.stage = stage

----------------------------------------------------------------------------
(* C1: if a handler or a subscriber fails during apply(m), store.state after
   the failed call equals store.state before the call. *)
C1_RollbackRestoresState ==
    (/\ Completed
     /\ done.failedIn \in {"handlers", "subscribers"}
     /\ done.e # UnhandledMutationError(done.id))
        => done.post = done.pre

(* C2: within one apply() call the callbacks are invoked stage by stage:
   observers, guarantees, handlers, subscribers, outcome callbacks. *)
C2_StagesInOrder ==
    /\ \A i \in 1..Len(stack) : InStageOrder(stack[i].called)
    /\ InStageOrder(done.called)

C2_Witness ==
    /\ Completed
    /\ {done.called[i].stage : i \in 1..Len(done.called)}
          = {Stages[i] : i \in 1..Len(Stages)}

(* C3: a write that a guarantee makes through the state it is given is never
   visible in store.state. *)
C3_GuaranteeWriteNeverVisible == ~Visible("guards")

(* C4: a write that an observer makes through the initial state it is given
   is not visible in store.state once apply() has completed. *)
C4_ObserverWriteNeverVisible ==
    Completed => \A mark \in done.post : mark.stage # "observers"

(* C5: a write that an outcome callback makes through the state it is given
   on a commit is never visible in store.state. *)
C5_OutcomeWriteNeverVisible == ~Visible("outcome")

C5_Witness ==
    /\ stack # <<>>
    /\ Top(Cur).stage = "outcome"
    /\ Top(Cur).e = NoError
    /\ Top(Cur).outcome # 0
    /\ \E mark \in heap[Top(Cur).outcome] : mark.stage = "outcome"

(* C6: if a guarantee rejects the mutation, no handler and no subscriber is
   invoked for the call, apply() raises, and store.state is unchanged. *)
C6_GuaranteeRejects ==
    (Completed /\ done.failedIn = "guards") =>
        /\ EntriesIn(done.called, "handlers") = <<>>
        /\ EntriesIn(done.called, "subscribers") = <<>>
        /\ done.raised # NoError
        /\ done.post = done.pre

(* C7: with the default options, apply(m) with no handler registered under
   any topic of m fails with the UnhandledMutationError and leaves store.state
   unchanged. *)
C7_UnhandledByDefault ==
    (/\ Completed
     /\ done.onUnhandledMutation = "THROW_THE_ERROR"
     /\ Registered(store.handlers, done.mutation) = <<>>
     /\ ReachedHandlers(done))
        => /\ done.e = UnhandledMutationError(done.id)
           /\ done.post = done.pre

(* C8: with an onUnhandledMutation that returns, a mutation that no handler
   is registered for does not abort the call: the policy is called once, the
   handlers' stage does not fail, the subscribers run, and the call commits
   unless a subscriber fails, with no handler's write in the state. *)
C8_UnhandledPolicyReturns ==
    (/\ Completed
     /\ done.onUnhandledMutation = "RETURN"
     /\ Registered(store.handlers, done.mutation) = <<>>
     /\ ReachedHandlers(done))
        => /\ done.unhandled = 1
           /\ done.failedIn # "handlers"
           /\ IF done.e = NoError
              THEN EntriesIn(done.called, "subscribers")
                      = Registered(store.subscribers, done.mutation)
              ELSE /\ done.failedIn = "subscribers"
                   /\ EntriesIn(done.called, "subscribers") # <<>>
                   /\ IsPrefix(EntriesIn(done.called, "subscribers"),
                               Registered(store.subscribers, done.mutation))
           /\ {mark \in done.post :
                  mark.stage = "handlers" /\ mark.call = done.id} \subseteq done.pre

C8_Witness ==
    /\ Completed
    /\ done.onUnhandledMutation = "RETURN"
    /\ Registered(store.handlers, done.mutation) = <<>>
    /\ done.unhandled = 1
    /\ done.e = NoError
    /\ done.raised = NoError
    /\ EntriesIn(done.called, "subscribers") # <<>>

(* C9, as claimed: whenever a guarantee, handler or subscriber fails, apply()
   raises the very failure that was caught, whatever the observers do. *)
C9_RaisesWhatWasCaught ==
    (Completed /\ done.e # NoError) => done.raised = done.e

(* C9, amended: whenever a guarantee, handler or subscriber fails, apply()
   raises the very failure that was caught, unless an observer's outcome
   callback throws when it is told of the failure: apply() then raises what
   that callback threw. *)
C9_RaisesWhatWasCaughtUnlessObserverThrows ==
    (Completed /\ done.e # NoError) =>
        /\ done.raised # NoError
        /\ ~OutcomeCallbackThrew(done) => done.raised = done.e

C9_Witness ==
    /\ Completed
    /\ done.e # NoError
    /\ done.raised = done.e
    /\ EntriesIn(done.called, "outcome") # <<>>

(* C10, as claimed: once the pipeline has committed or rolled back, every
   outcome callback collected from the observers has been invoked exactly
   once, in the order in which the observers were invoked. *)
C10_EveryOutcomeCallbackOnce ==
    (Completed /\ ~ObserverThrew(done)) =>
        EntriesIn(done.called, "outcome") = EntriesIn(done.called, "observers")

(* C10, amended: the outcome callbacks are invoked in the order in which the
   observers were invoked, each at most once, and all of them unless one of
   them throws: the callbacks after that one are not invoked. *)
C10_OutcomeCallbacksInOrderUntilOneThrows ==
    (Completed /\ ~ObserverThrew(done)) =>
        /\ IsPrefix(EntriesIn(done.called, "outcome"),
                    EntriesIn(done.called, "observers"))
        /\ ~OutcomeCallbackThrew(done) =>
              EntriesIn(done.called, "outcome") = EntriesIn(done.called, "observers")

C10_Witness ==
    /\ Completed
    /\ Len(EntriesIn(done.called, "observers")) >= 2
    /\ EntriesIn(done.called, "outcome") = EntriesIn(done.called, "observers")
    /\ EntriesIn(done.called, "outcome")[1] # EntriesIn(done.called, "outcome")[2]

(* C11: once the pipeline has committed, nothing an outcome callback does
   undoes the commit: while the outcome callbacks run, and when one of them
   throws, store.state stays as the handlers and subscribers made it, and
   apply() throws what the callback threw. *)
C11_OutcomeCallbackThrowsAfterCommit ==
    [][(/\ InCallback
        /\ Top(Cur).stage = "outcome"
        /\ Top(Cur).e = NoError)
          => /\ store'._state = store._state
             /\ heap'[store'._state] = heap[store._state]
             /\ Len(stack') = Len(stack) => stack'[Len(stack)].e = NoError
             /\ Len(stack') < Len(stack) =>
                   /\ done'.id = Top(Cur).id
                   /\ done'.e = NoError
                   /\ done'.raised \in
                         {NoError,
                          ErrorOf(Top(Cur).id, "outcome", Top(Cur).cb.entry)}]_vars

C11_Witness ==
    /\ Completed
    /\ done.e = NoError
    /\ OutcomeCallbackThrew(done)
    /\ \E mark \in done.post \ done.pre :
          mark.call = done.id /\ mark.stage \in {"handlers", "subscribers"}

(* C12: if an observer's beforeMutationApplied throws, apply() throws it
   without catching it, no guard, handler, subscriber or outcome callback is
   invoked, and store.state is what it was before the call. *)
C12_ObserverThrowsBeforeMutation ==
    (Completed /\ ObserverThrew(done)) =>
        /\ done.e = NoError
        /\ done.failedIn = "none"
        /\ \A i \in 1..Len(done.called) : done.called[i].stage = "observers"
        /\ done.post = done.pre

C12_Witness ==
    /\ Completed
    /\ ObserverThrew(done)
    /\ Len(done.updaterFns) >= 1
    /\ Len(done.called) >= 2

----------------------------------------------------------------------------
(* Properties of the registries *)

HasTopic(mutation, names) ==
    \E i \in 1..Len(getClassNames(mutation)), j \in 1..Len(names) :
        getClassNames(mutation)[i] = names[j]

\* the extension of an unsubscribe function was invoked by a call
InvokedBy(called, u) ==
    \E k \in 1..Len(called) :
        called[k].stage = u.registry /\ called[k].entry = u.extension

\* no apply() call that began after unsubs[i] was first called, and whose
\* mutation has a topic of it, has invoked its extension
NotInvokedSince(i) ==
    LET u == unsubs[i] IN
    /\ \A j \in (u.at + 1)..Len(stack) :
          HasTopic(stack[j].mutation, u.names) => ~InvokedBy(stack[j].called, u)
    /\ (done.id > u.at /\ HasTopic(done.mutation, u.names))
          => ~InvokedBy(done.called, u)

\* the only add() of its extension to its registry
OnlyAdd(i) ==
    \A j \in 1..Len(unsubs) :
        (unsubs[j].registry = unsubs[i].registry
           /\ unsubs[j].extension = unsubs[i].extension) => j = i

(* C13, as claimed: after the function returned by add(fn, "T") has been
   called, a later apply() of a mutation that has topic "T" does not invoke
   fn, and calling the function a second time does not throw. *)
C13_UnsubscribedIsNotInvoked ==
    /\ \A i \in 1..Len(unsubs) : unsubs[i].calls >= 1 => NotInvokedSince(i)
    /\ (op.kind = "unsubscribe" /\ op.again) => ~op.threw

(* C13, amended: the same, for an fn that no other add() has registered in
   that registry: a second registration of fn stays in force. *)
C13_UnsubscribedIsNotInvokedUnlessAddedTwice ==
    /\ \A i \in 1..Len(unsubs) :
          (unsubs[i].calls >= 1 /\ OnlyAdd(i)) => NotInvokedSince(i)
    /\ (op.kind = "unsubscribe" /\ op.again) => ~op.threw

C13_Witness ==
    /\ Completed
    /\ done.e = NoError
    /\ \E i \in 1..Len(unsubs) :
          /\ unsubs[i].calls = 2
          /\ OnlyAdd(i)
          /\ unsubs[i].registry = "subscribers"
          /\ done.id > unsubs[i].at
          /\ HasTopic(done.mutation, unsubs[i].names)
          /\ EntriesIn(done.called, "subscribers") # <<>>

(* C14: calling an unsubscribe function again is a no-op: the registry's
   topic lists after the second call are those after the first call. *)
C14_SecondUnsubscribeIsNoOp ==
    (op.kind = "unsubscribe" /\ op.again) =>
        /\ ~op.threw
        /\ store[op.registry] = op.before

(* C15: add() for a topic that the registry holds no list for does not
   throw: it creates the list, with the entry in it for the next dispatch. *)
C15_AddCreatesTheList ==
    (/\ op.kind = "add"
     /\ \E j \in 1..Len(op.names) : op.names[j] \notin DOMAIN op.before)
        => /\ ~op.threw
           /\ \A j \in 1..Len(op.names) :
                 /\ op.names[j] \in DOMAIN store[op.registry]
                 /\ IndexOf(store[op.registry][op.names[j]], op.extension) > 0

RECURSIVE CalledFor(_, _, _)
\* the entries that a call invoked in one stage for one topic
CalledFor(called, stage, name) ==
    IF called = <<>> THEN <<>>
    ELSE IF Head(called).stage = stage /\ Head(called).name = name
         THEN <<Head(called).entry>> \o CalledFor(Tail(called), stage, name)
         ELSE CalledFor(Tail(called), stage, name)

\* the call ran all its stages to their end
RanThrough(d) == d.id # 0 /\ d.e = NoError /\ d.raised = NoError

(* C16: the dispatch of a topic runs over the list as it was when the
   iteration of the topic began, whatever the callbacks unsubscribe
   meanwhile: each entry of that list is invoked once, none is skipped, in
   every registry. *)
C16_TopicDispatchedFromSnapshot ==
    RanThrough(done) =>
        \A p \in 1..Len(done.began) :
            CalledFor(done.called, done.began[p].stage, done.began[p].name)
                = done.began[p].list

(* C17: an unsubscribe function called by an extension takes effect only
   after the dispatch pass of a StoreExtensions registry (observers,
   handlers, subscribers): every entry registered under a topic of the
   mutation when the pass began is invoked in the pass. *)
C17_UnsubscribeAfterThePass ==
    RanThrough(done) =>
        \A p \in 1..Len(done.began) :
            (/\ done.began[p].stage \in {"observers", "handlers", "subscribers"}
             /\ done.began[p].name = getClassNames(done.mutation)[1]) =>
                EntriesIn(done.called, done.began[p].stage)
                    = done.began[p].all

----------------------------------------------------------------------------
(* Properties of the dispatch *)

Count(list, entry) == Cardinality({i \in 1..Len(list) : list[i] = entry})

\* the topics of a mutation: its class, the classes it extends, and "Object",
\* the topic of every mutation
TopicSet(mutation) == {mutation, "Mutation", "Object"}

\* an entry is in the registry under a topic of the mutation
RegisteredFor(extensions, mutation, entry) ==
    \E name \in TopicSet(mutation) \cap DOMAIN extensions :
        \E i \in 1..Len(extensions[name]) : extensions[name][i] = entry

\* the handlers' stage of the call ran to its end
HandlersRan(d) ==
    d.id # 0 /\ ~ObserverThrew(d) /\ d.failedIn \notin {"guards", "handlers"}

(* C18: a handler registered (once) under "Object", the topic of every
   mutation, is invoked exactly once by every apply() call whose handlers
   run, whatever the mutation and whatever handlers its other topics have. *)
C18_UniversalTopicHandler ==
    (HandlersRan(done) /\ "Object" \in DOMAIN store.handlers) =>
        \A i \in 1..Len(store.handlers["Object"]) :
            LET h == store.handlers["Object"][i] IN
            (/\ Count(store.handlers["Object"], h) = 1
             /\ \A name \in DOMAIN store.handlers \ {"Object"} :
                   Count(store.handlers[name], h) = 0)
                => Count(EntriesIn(done.called, "handlers"), h) = 1

C18_Witness ==
    /\ HandlersRan(done)
    /\ done.mutation = "MutationA"
    /\ store.handlers = OnePerTopic
    /\ EntriesIn(done.called, "handlers") = <<"e1", "e2">>

\* the calls in progress whose handler is running
HandlerRunning(i) ==
    /\ stack[i].stage = "handlers"
    /\ stack[i].cb.entry # NoEntry
    /\ NameAt(stack[i]) \in DOMAIN store.handlers

(* C19: the handlers of a topic are invoked in the order of their
   registration: when one is invoked, those registered before it on the
   topic have been invoked, in that order, and every write they made is in
   the state it is given. *)
C19_HandlersInRegistrationOrder ==
    \A i \in 1..Len(stack) :
        HandlerRunning(i) =>
            LET f == stack[i]
                list == store.handlers[NameAt(f)]
            IN /\ f.k <= Len(list)
               /\ CalledFor(f.called, "handlers", NameAt(f))
                     = SubSeq(list, 1, f.k)
               /\ \A n \in 1..Len(f.called) :
                     (/\ f.called[n].stage = "handlers"
                      /\ f.called[n].name = NameAt(f)
                      /\ f.called[n].wrote)
                        => [call |-> f.id, stage |-> "handlers",
                            entry |-> f.called[n].entry] \in heap[Target(f)]

C19_Witness ==
    \E i \in 1..Len(stack) :
        /\ HandlerRunning(i)
        /\ stack[i].k = 2
        /\ stack[i].cb.entry = "e2"
        /\ store.handlers = TwoOnATopic
        /\ stack[i].called[Len(stack[i].called) - 1].wrote
        /\ [call |-> stack[i].id, stage |-> "handlers", entry |-> "e1"]
              \in heap[Target(stack[i])] \ stack[i].pre

\* every entry the call invoked is registered under a topic of the mutation
OnlyRegistered(mutation, called) ==
    \A k \in 1..Len(called) :
        RegisteredFor(store[IF called[k].stage = "outcome" THEN "observers"
                            ELSE called[k].stage],
                      mutation, called[k].entry)

(* C20: an entry is invoked for a mutation only if it is registered under a
   topic of the mutation, in every stage, and an observer's outcome callback
   only if the observer is. *)
C20_OnlyRegisteredForTheMutation ==
    /\ \A i \in 1..Len(stack) :
          OnlyRegistered(stack[i].mutation, stack[i].called)
    /\ Completed => OnlyRegistered(done.mutation, done.called)

C20_Witness ==
    /\ Completed
    /\ done.mutation = "MutationB"
    /\ store.observers = OnePerTopic
    /\ store.handlers = OnObject
    /\ EntriesIn(done.called, "observers") = <<"e2">>
    /\ EntriesIn(done.called, "outcome") = <<"e2">>
    /\ EntriesIn(done.called, "handlers") = <<"e1">>

----------------------------------------------------------------------------
(* Properties of nested calls *)

\* the call in progress at depth i waits in the callback that made the
\* nested call: that callback is the last one it has invoked
Suspended(i) ==
    /\ stack[i].stage \in {"handlers", "subscribers"}
    /\ stack[i].cb.entry # NoEntry
    /\ stack[i].called # <<>>
    /\ stack[i].called[Len(stack[i].called)].stage = stack[i].stage
    /\ stack[i].called[Len(stack[i].called)].entry = stack[i].cb.entry

(* C21: nested calls run synchronously: while a call made by a handler or
   subscriber is in progress, in any of its stages, the outer call stands in
   the callback that made it and has invoked no later subscriber and no
   outcome callback; and when the nested call has returned, all its outcome
   callbacks have been invoked. *)
C21_NestedCallCompletesFirst ==
    /\ \A i \in 1..(Len(stack) - 1) : Suspended(i)
    /\ (done.id >= 2 /\ done.raised = NoError) =>
          /\ Len(stack) = done.id - 1
          /\ Suspended(Len(stack))
          /\ EntriesIn(done.called, "outcome") = done.updaterFns

C21_Witness ==
    /\ Len(stack) = 2
    /\ stack[2].stage = "outcome"
    /\ stack[2].cb.entry # NoEntry
    /\ stack[1].stage = "subscribers"
    /\ stack[1].cb.entry = "e1"
    /\ store.subscribers = TwoOnATopic
    /\ stack[1].mutation = "MutationA"

\* a subscriber of the call made a nested call that committed
SubscriberCommitted(called) ==
    \E k \in 1..Len(called) :
        called[k].stage = "subscribers" /\ "committed" \in called[k].nested

(* C22: if a subscriber's nested apply() commits and the outer apply() then
   fails, store.state after the outer call equals store.state before it: what
   the nested call committed is rolled back with the rest. *)
C22_CommittedNestedCallRolledBack ==
    (/\ Completed
     /\ done.failedIn = "subscribers"
     /\ SubscriberCommitted(done.called))
        => done.post = done.pre

----------------------------------------------------------------------------
(* The constructor: new Store(initialState, { ... }), with an application that
   keeps the initialState value it passed and goes on writing to it *)

\* what the application writes to its value before and after it constructs
\* the Store
WrittenBefore == [call |-> 0, stage |-> "application", entry |-> "before"]

WrittenAfter == [call |-> 0, stage |-> "application", entry |-> "after"]

\* the value installed as it is
Adopted(c, initialState) == [c EXCEPT !.store._state = initialState]

\* this._state = copy(initialState)
constructor(c, initialState) ==
    [copy(c, initialState) EXCEPT !.store._state = NewRef(c)]

\* the application holds a value, written to or not, and constructs the Store
\* with it
InitConstructed ==
    /\ \E value \in {{}, {WrittenBefore}}, ys \in {NoExtensions, OnObject} :
          LET c == [store |-> [r \in Registries \cup {"_state"} |->
                                  IF r = "_state" THEN 0
                                  ELSE IF r = "handlers" THEN OnObject ELSE ys],
                    heap |-> <<value>>, stack |-> <<>>, done |-> NotDone,
                    caller |-> 1]
              d == constructor(c, c.caller)
          IN /\ store = d.store
             /\ heap = d.heap
             /\ caller = d.caller
    /\ stack = <<>>
    /\ done = NotDone
    /\ left = MaxOps
    /\ unsubs = <<>>
    /\ op = NoOp

\* the application writes to the value it constructed the Store with
WriteInitialState ==
    /\ caller # 0
    /\ WrittenAfter \notin heap[caller]
    /\ heap' = [heap EXCEPT ![caller] = @ \cup {WrittenAfter}]
    /\ done' = NotDone
    /\ UNCHANGED <<store, stack, left, caller>>
    /\ NoRegistryCall

NextConstructed ==
    \/ \E m \in {"MutationA"}, p \in {"THROW_THE_ERROR"} :
          Apply(m, p, "THROW_THE_ERROR")
    \/ Write
    \/ Return
    \/ Raise
    \/ CatchNested
    \/ WriteInitialState

SpecConstructed == InitConstructed /\ [][NextConstructed]_vars

(* C23: the Store copies the initial state it is constructed with: what the
   application writes afterwards to its own value is never in store.state,
   and what a handler (or any callback) writes to the state it is given is
   never in the application's value. *)
C23_ConstructorCopies ==
    caller # 0 =>
        /\ WrittenAfter \notin heap[store._state]
        /\ \A mark \in heap[caller] : mark.stage = "application"

C23_Witness ==
    /\ caller # 0
    /\ Completed
    /\ done.e = NoError
    /\ WrittenAfter \in heap[caller]
    /\ WrittenBefore \in heap[store._state]
    /\ \E mark \in heap[store._state] : mark.stage = "handlers"

----------------------------------------------------------------------------
(* Properties of the topics *)

\* class MutationA extends Mutation, class MutationB extends Mutation; a
\* class that extends nothing extends Object
Extends(class) == IF class \in Mutations THEN "Mutation" ELSE "Object"

RECURSIVE Ancestry(_)
\* a class and the classes it extends, the most specific first
Ancestry(class) ==
    IF class = "Object" THEN <<"Object">>
    ELSE <<class>> \o Ancestry(Extends(class))

RECURSIVE NamesIn(_, _)
\* the topics whose lists a call went through in one stage, in order
NamesIn(began, stage) ==
    IF began = <<>> THEN <<>>
    ELSE IF Head(began).stage = stage
         THEN <<Head(began).name>> \o NamesIn(Tail(began), stage)
         ELSE NamesIn(Tail(began), stage)

\* the topics are the class of the mutation, its ancestors and "Object", with
\* no topic twice
TopicsOf(mutation) ==
    LET topics == getClassNames(mutation) IN
    /\ topics # <<>>
    /\ \A a, b \in 1..Len(topics) : a # b => topics[a] # topics[b]
    /\ topics[1] = mutation
    /\ topics[Len(topics)] = "Object"
    /\ topics = Ancestry(mutation)

(* C24: the topics of a mutation are a non-empty sequence without duplicates:
   the name of its class, then its ancestors from the most specific, then
   "Object"; every stage of every call goes through them in that order, and
   two calls with mutations of the same class go through the same topics. *)
C24_TopicsMostSpecificFirst ==
    /\ \A i \in 1..Len(stack) :
          /\ TopicsOf(stack[i].mutation)
          /\ \A stage \in Registries :
                IsPrefix(NamesIn(stack[i].began, stage),
                         getClassNames(stack[i].mutation))
          /\ \A j \in 1..Len(stack) :
                (/\ stack[j].mutation = stack[i].mutation
                 /\ StageNumber(stack[j].stage) > 1) =>
                    NamesIn(stack[j].began, "observers")
                        = getClassNames(stack[i].mutation)
    /\ Completed =>
          \A stage \in Registries :
              IsPrefix(NamesIn(done.began, stage), getClassNames(done.mutation))

C24_Witness ==
    /\ Len(stack) = 2
    /\ stack[1].mutation = "MutationB"
    /\ stack[2].mutation = "MutationB"
    /\ stack[2].stage = "handlers"
    /\ NamesIn(stack[1].began, "guards") = <<"MutationB", "Mutation", "Object">>
    /\ NamesIn(stack[2].began, "guards") = <<"MutationB", "Mutation", "Object">>

----------------------------------------------------------------------------
(* Properties of the outcome *)

\* the call in progress at depth i has just invoked an outcome callback
OutcomeCallbackInvoked(i) ==
    /\ stack[i].stage = "outcome"
    /\ stack[i].cb.entry # NoEntry
    /\ ~stack[i].called[Len(stack[i].called)].wrote

(* C25, as claimed: on a commit every outcome callback receives a value equal
   to store.state; on a failure every outcome callback receives the failure
   that was caught. *)
C25_OutcomeCallbacksReceiveTheOutcome ==
    \A i \in 1..Len(stack) :
        OutcomeCallbackInvoked(i) =>
            IF stack[i].e = NoError
            THEN /\ stack[i].told = NoError
                 /\ stack[i].outcome # 0
                 /\ heap[stack[i].outcome] = heap[store._state]
            ELSE /\ stack[i].told = stack[i].e
                 /\ stack[i].outcome = 0

(* C25, amended: on a commit the outcome callbacks all receive one copy of
   store.state: the first receives a value equal to store.state, a later one
   receives it with what the callbacks before it wrote to it; on a failure
   every outcome callback receives the failure that was caught. *)
C25_OutcomeCallbacksShareOneCopy ==
    \A i \in 1..Len(stack) :
        OutcomeCallbackInvoked(i) =>
            IF stack[i].e = NoError
            THEN /\ stack[i].told = NoError
                 /\ stack[i].outcome # 0
                 /\ heap[store._state] \subseteq heap[stack[i].outcome]
                 /\ \A mark \in heap[stack[i].outcome] \ heap[store._state] :
                       /\ mark.stage = "outcome"
                       /\ mark.call = stack[i].id
                       /\ \E n \in 1..(Len(stack[i].called) - 1) :
                             /\ stack[i].called[n].stage = "outcome"
                             /\ stack[i].called[n].entry = mark.entry
                             /\ stack[i].called[n].wrote
            ELSE /\ stack[i].told = stack[i].e
                 /\ stack[i].outcome = 0

C25_Witness ==
    \E i \in 1..Len(stack) :
        /\ OutcomeCallbackInvoked(i)
        /\ stack[i].e = NoError
        /\ EntriesIn(stack[i].called, "outcome") = <<"e1", "e2">>
        /\ heap[stack[i].outcome] # heap[store._state]
        /\ \E mark \in heap[store._state] : mark.stage = "handlers"

\* a failure was handed to the second outcome callback
C25_WitnessOfFailure ==
    \E i \in 1..Len(stack) :
        /\ OutcomeCallbackInvoked(i)
        /\ stack[i].e # NoError
        /\ Len(EntriesIn(stack[i].called, "outcome")) = 2

----------------------------------------------------------------------------
(* The error reporter: apply(mutation, { onError }), and callbacks that
   report an error through the onError they are given *)

\* the running guard, handler or subscriber calls onError(new AppError(...)),
\* the onError it was given: THROW_THE_ERROR, or the one of the caller of
\* apply(), which notes that it was called; either throws the error
Report ==
    /\ InCallback
    /\ LET f == Top(Cur)
           g == [f EXCEPT !.called[Len(f.called)].reported = f.cb.onError,
                          !.cb = NoCallback]
       IN /\ f.cb.pending = NoError
          /\ f.cb.onError # "none"
          /\ Becomes(Catch(SetTop(Cur, g),
                           AppErrorOf(f.id, f.stage, f.cb.entry)))
    /\ UNCHANGED left
    /\ NoRegistryCall

\* a store with an observer, a guard, a handler and a subscriber
InitReporter ==
    /\ store = [r \in Registries \cup {"_state"} |->
                   IF r = "_state" THEN 1 ELSE OnObject]
    /\ heap = << {} >>
    /\ stack = <<>>
    /\ done = NotDone
    /\ left = MaxOps
    /\ unsubs = <<>>
    /\ op = NoOp
    /\ caller = 0

NextReporter ==
    \/ \E onError \in {"THROW_THE_ERROR", "myErrorHandler"} :
          Apply("MutationA", "THROW_THE_ERROR", onError)
    \/ Write
    \/ Return
    \/ Raise
    \/ CatchNested
    \/ Report

SpecReporter == InitReporter /\ [][NextReporter]_vars

\* every guard, handler and subscriber of the call was given its onError
GivenTheReporter(onError, called) ==
    \A n \in 1..Len(called) :
        called[n].stage \in {"guards", "handlers", "subscribers"} =>
            called[n].onError = onError

\* the call failed by an error that one of its callbacks reported
FailedByReport(d) ==
    /\ d.id # 0
    /\ d.e.kind = "AppError"
    /\ d.e.call = d.id

\* the failure of the call was reported through the onError of the call
ReportedThrough(d) ==
    \E n \in 1..Len(d.called) :
        /\ d.called[n].stage = d.failedIn
        /\ d.called[n].entry = d.e.entry
        /\ d.called[n].reported = d.onError

(* C26: the onError of apply()'s options (default: THROW_THE_ERROR) is the
   one given to every guard, handler and subscriber invoked for the call;
   when a callback reports an error through it, apply() throws that error and
   store.state is what it was before the call. *)
C26_ReporterOfTheCall ==
    /\ \A i \in 1..Len(stack) : GivenTheReporter(stack[i].onError, stack[i].called)
    /\ GivenTheReporter(done.onError, done.called)
    /\ FailedByReport(done) =>
          /\ ReportedThrough(done)
          /\ done.raised = done.e
          /\ done.post = done.pre

\* the call in progress at depth i is telling its outcome callbacks of a
\* failure
ToldOfFailure(i) ==
    /\ stack[i].stage = "outcome"
    /\ stack[i].cb.entry # NoEntry
    /\ stack[i].e # NoError

(* C27: on a failed apply() the rollback comes before the notification: when
   an outcome callback is invoked with the failure, store.state is the
   backup and equals the state before the call, and it stays so when an
   outcome callback throws. *)
C27_RolledBackBeforeNotified ==
    /\ \A i \in 1..Len(stack) :
          ToldOfFailure(i) =>
              /\ store._state = stack[i].initialState
              /\ heap[store._state] = stack[i].pre
    /\ (Completed /\ done.e # NoError /\ OutcomeCallbackThrew(done)) =>
          done.post = done.pre

----------------------------------------------------------------------------
(* Properties of the state argument *)

\* the innermost call has just invoked a handler or a subscriber, which has
\* not made a nested call
HandlerOrSubscriberInvoked(f) ==
    /\ f.stage \in {"handlers", "subscribers"}
    /\ f.cb.entry # NoEntry
    /\ f.called[Len(f.called)].nested = {}

(* C28: the state a handler or a subscriber is invoked with is the live
   state of the store, so that what it writes to it is in store.state; also
   for a callback invoked after a nested apply() of an earlier handler or
   subscriber has failed and been caught. *)
C28_GivenTheLiveState ==
    (stack # <<>> /\ HandlerOrSubscriberInvoked(Top(Cur))) =>
        Top(Cur).state = store._state

\* a handler or subscriber of the call made a nested call that failed, and
\* none made one that committed
NestedCallsFailed(called) ==
    /\ \E n \in 1..Len(called) : "rolled back" \in called[n].nested
    /\ \A n \in 1..Len(called) : "committed" \notin called[n].nested

\* what the handlers and subscribers of the call wrote is in the state
EffectsKept(d) ==
    \A n \in 1..Len(d.called) :
        (d.called[n].stage \in {"handlers", "subscribers"} /\ d.called[n].wrote)
            => [call |-> d.id, stage |-> d.called[n].stage,
                entry |-> d.called[n].entry] \in d.post

(* C29: when a handler or subscriber catches the failure of the nested
   apply() it made, the outer apply() can still commit, and store.state then
   holds what every handler and subscriber of the outer call wrote and
   nothing of the failed nested call. *)
C29_CommitsAfterNestedFailure ==
    (RanThrough(done) /\ NestedCallsFailed(done.called)) =>
        /\ EffectsKept(done)
        /\ \A mark \in done.post \ done.pre : mark.call = done.id

----------------------------------------------------------------------------
(* Properties of a failure *)

\* a handler or a subscriber of the call threw, and the call failed by it
FailedByCallback(d) ==
    /\ d.id # 0
    /\ d.failedIn \in {"handlers", "subscribers"}
    /\ d.e.kind = "Error"
    /\ d.e.call = d.id
    /\ d.e.stage = d.failedIn

(* C30: a failure ends its stage and the call: when a handler throws, no
   handler after it in the order of dispatch and no subscriber is invoked
   for the call; when a subscriber throws, no subscriber after it is. *)
C30_FailureAbortsTheCall ==
    FailedByCallback(done) =>
        LET invoked == EntriesIn(done.called, done.failedIn) IN
        /\ invoked # <<>>
        /\ invoked[Len(invoked)] = done.e.entry
        /\ IsPrefix(invoked, Registered(store[done.failedIn], done.mutation))
        /\ done.failedIn = "handlers" =>
              EntriesIn(done.called, "subscribers") = <<>>

C30_Witness ==
    /\ FailedByCallback(done)
    /\ done.failedIn = "handlers"
    /\ done.mutation = "MutationA"
    /\ store.handlers = TwoOnATopic
    /\ store.subscribers = OnObject
    /\ EntriesIn(done.called, "handlers") = <<"e1">>

----------------------------------------------------------------------------
(* Properties of the order of dispatch *)

\* the place of a topic among the topics of a mutation, the most specific
\* class first
TopicNumber(mutation, name) ==
    CHOOSE i \in 1..Len(Ancestry(mutation)) : Ancestry(mutation)[i] = name

\* an add() of x to the topic of the registry came before an add() of y to it
AddedBefore(registry, name, x, y) ==
    \E i, j \in 1..Len(unsubs) :
        /\ i < j
        /\ unsubs[i].registry = registry /\ unsubs[i].extension = x
        /\ unsubs[j].registry = registry /\ unsubs[j].extension = y
        /\ \E a \in 1..Len(unsubs[i].names) : unsubs[i].names[a] = name
        /\ \E b \in 1..Len(unsubs[j].names) : unsubs[j].names[b] = name

\* the entries of each stage were invoked topic by topic in the order of the
\* mutation's topics, and those of one topic in the order they were added
InDispatchOrder(mutation, called) ==
    \A m, n \in 1..Len(called) :
        (m < n /\ called[m].stage = called[n].stage
               /\ called[m].stage \in Registries) =>
            /\ TopicNumber(mutation, called[m].name)
                  <= TopicNumber(mutation, called[n].name)
            /\ (called[m].name = called[n].name
                  /\ called[m].entry # called[n].entry) =>
                  AddedBefore(called[m].stage, called[m].name,
                              called[m].entry, called[n].entry)

(* C31: the entries registered on different topics of a mutation are
   invoked in the order of the mutation's topics, the most specific first,
   whatever the order in which they were added; those of one topic are
   invoked in the order in which they were added. *)
C31_DispatchedInTopicOrder ==
    /\ \A i \in 1..Len(stack) : InDispatchOrder(stack[i].mutation, stack[i].called)
    /\ Completed => InDispatchOrder(done.mutation, done.called)

\* an entry added to "MutationA" after the entry of "Object" is invoked
\* before it
C31_Witness ==
    /\ Completed
    /\ done.mutation = "MutationA"
    /\ \E registry \in Registries :
          /\ EntriesIn(done.called, registry) = <<"e1", "e2", "e4", "e3">>
          /\ AddedBefore(registry, "MutationA", "e1", "e2")
          /\ \E i, j \in 1..Len(unsubs) :
                /\ i < j
                /\ unsubs[i].extension = "e3" /\ unsubs[i].names = <<"Object">>
                /\ unsubs[j].extension = "e4" /\ unsubs[j].names = <<"MutationA">>

----------------------------------------------------------------------------
(* Properties of the registrations in force *)

\* the add() was made for the topic of the registry
AddedTo(u, registry, name) ==
    /\ u.registry = registry
    /\ \E a \in 1..Len(u.names) : u.names[a] = name

\* the entries whose add() to the topic has not been revoked by a call of the
\* function it returned, in the order of the add() calls
InForce(registry, name) ==
    LET kept == SelectSeq(unsubs,
                          LAMBDA u : AddedTo(u, registry, name) /\ u.calls = 0)
    IN [k \in 1..Len(kept) |-> kept[k].extension]

(* C32: a call of the function that an add() returned removes only the
   registration of that add(): every topic of every registry holds the
   entries of the add() calls whose function has not been called, in the
   order of those add() calls. *)
C32_OnlyItsRegistrationRemoved ==
    \A registry \in Registries :
        \A name \in DOMAIN store[registry] :
            store[registry][name] = InForce(registry, name)

----------------------------------------------------------------------------
(* Properties of an add() made during a dispatch pass *)

\* the entries registered under the topics of the mutation when the pass of
\* a stage began
AtPassBegin(began, stage) ==
    LET first == SelectSeq(began, LAMBDA b : b.stage = stage /\ b.all # <<>>)
    IN IF first = <<>> THEN <<>> ELSE first[1].all

\* no entry was invoked in a stage more often than it was registered under
\* the topics of the mutation when the pass of that stage began
OnlyThoseOfThePass(called, began) ==
    \A n \in 1..Len(called) :
        called[n].stage \in Registries =>
            Count(EntriesIn(called, called[n].stage), called[n].entry)
                <= Count(AtPassBegin(began, called[n].stage), called[n].entry)

(* C33: an entry that a callback adds during a dispatch pass is not invoked
   in that pass: a pass invokes only the entries that were registered under
   the topics of the mutation when it began. *)
C33_AddedEntryWaitsForNextPass ==
    /\ \A i \in 1..Len(stack) :
          OnlyThoseOfThePass(stack[i].called, stack[i].began)
    /\ Completed => OnlyThoseOfThePass(done.called, done.began)

----------------------------------------------------------------------------
(* InMemoryChangelog: an observer that keeps what it is given *)

\* new InMemoryChangelog(), registered as an observer of every mutation
ChangelogOnObject ==
    [name \in {"Object"} |-> <<"InMemoryChangelog">>]

\* the callback that is running is the changelog's
ChangelogRunning ==
    InCallback /\ Top(Cur).cb.entry = "InMemoryChangelog"

\* InMemoryChangelog.beforeMutationApplied(mutation, initialState): the
\* event pushed to _theLog holds the initialState object itself. `caller` is
\* _theLog[0].initialState, the object recorded in the first entry of the log.
beforeMutationApplied ==
    /\ ChangelogRunning
    /\ LET f == Top(Cur)
           g == [f EXCEPT !.cb = NoCallback,
                          !.updaterFns = Append(@, f.cb.entry)]
           c == [Cur EXCEPT !.caller = IF caller = 0 THEN f.initialState
                                       ELSE caller]
       IN /\ f.stage = "observers"
          /\ Becomes(Continue(SetTop(c, g)))
    /\ UNCHANGED left
    /\ NoRegistryCall

\* the function that beforeMutationApplied() returned: it keeps the outcome
\* in its event and returns
updaterFn ==
    /\ ChangelogRunning
    /\ Top(Cur).stage = "outcome"
    /\ Return

\* a Store with the changelog as its observer and a handler for every mutation
InitChangelog ==
    /\ store = [r \in Registries \cup {"_state"} |->
                   CASE r = "_state" -> 1
                     [] r = "observers" -> ChangelogOnObject
                     [] r = "handlers" -> OnObject
                     [] OTHER -> NoExtensions]
    /\ heap = << {} >>
    /\ stack = <<>>
    /\ done = NotDone
    /\ left = MaxOps
    /\ unsubs = <<>>
    /\ op = NoOp
    /\ caller = 0

NextChangelog ==
    \/ \E p \in {"THROW_THE_ERROR", "RETURN"} :
          Apply("MutationA", p, "THROW_THE_ERROR")
    \/ beforeMutationApplied
    \/ updaterFn
    \/ ~ChangelogRunning /\ Write
    \/ ~ChangelogRunning /\ Return
    \/ ~ChangelogRunning /\ Raise
    \/ CatchNested

SpecChangelog == InitChangelog /\ [][NextChangelog]_vars

\* the call whose initialState the first entry of the log holds is running
LoggedCallRunning == stack # <<>> /\ stack[1].initialState = caller

(* C34: once an apply() call has completed, the initialState in the
   changelog's entry of that call has the value the store's state had before
   the call, and no later step of the store changes the recorded value,
   whether the call was committed or rolled back. *)
C34_RecordedInitialStateIsKept ==
    [][caller # 0 =>
          /\ (LoggedCallRunning /\ stack' = <<>>) =>
                (caller' = caller /\ heap'[caller] = done'.pre)
          /\ ~LoggedCallRunning =>
                (caller' = caller /\ heap'[caller] = heap[caller])]_vars

----------------------------------------------------------------------------
(* Properties of an entry registered under several topics *)

\* the registry's lists are those that the pass of the stage iterated, and no
\* callback removed an entry from the array that a pass of the guards walks
\* (the function an add() to the guards returned was called once, outside
\* apply(), or never)
AsIterated(d, stage) ==
    /\ \A p \in 1..Len(d.began) :
          d.began[p].stage = stage =>
              d.began[p].list = ListFor(store[stage], d.began[p].name)
    /\ stage = "guards" =>
          \A i \in 1..Len(unsubs) :
              unsubs[i].registry = "guards" =>
                  \/ unsubs[i].calls = 0
                  \/ unsubs[i].calls = 1 /\ unsubs[i].at = 0

\* the number of registrations of the entry under the topics of the mutation
Registrations(extensions, mutation, entry) ==
    Count(ListFor(extensions, mutation), entry)
        + Count(ListFor(extensions, "Mutation"), entry)
        + Count(ListFor(extensions, "Object"), entry)

(* C35: an entry registered under several topics of a mutation, or several
   times under one, is invoked once for each of those registrations in one
   apply(): a call that ran through a stage whose lists were not changed
   under it invoked each entry as many times as it is registered under the
   topics of the mutation. *)
C35_InvokedOncePerRegistration ==
    RanThrough(done) =>
        \A stage \in Registries :
            AsIterated(done, stage) =>
                \A entry \in {"e1", "e2", "e3", "e4"} :
                    Count(EntriesIn(done.called, stage), entry)
                        = Registrations(store[stage], done.mutation, entry)

\* an entry registered under "MutationA" and under "Object" is invoked for
\* each of the two topics by one call
C35_Witness ==
    /\ RanThrough(done)
    /\ \E stage \in Registries, m, n \in 1..Len(done.called) :
          /\ AsIterated(done, stage)
          /\ done.called[m].stage = stage /\ done.called[n].stage = stage
          /\ done.called[m].entry = done.called[n].entry
          /\ done.called[m].name = "MutationA"
          /\ done.called[n].name = "Object"
          /\ IndexOf(ListFor(store[stage], "MutationA"), done.called[m].entry) > 0
          /\ IndexOf(ListFor(store[stage], "Object"), done.called[m].entry) > 0

----------------------------------------------------------------------------
(* InterestsRegistry.length *)

\* HashMap.forEach(this._theList, ...): the lengths of the lists, added up
RECURSIVE SumOfLengths(_, _)
SumOfLengths(theList, names) ==
    IF names = {} THEN 0
    ELSE LET name == CHOOSE n \in names : TRUE
         IN Len(theList[name]) + SumOfLengths(theList, names \ {name})

\* get length(): how many callbacks are registered, a callback counted once
\* for each topic it is in the list of
length(theList) == SumOfLengths(theList, DOMAIN theList)

\* the registrations of a registry whose function has not been called: one
\* for each topic of each add()
NotRevoked(registry) ==
    {<<i, a>> \in (1..Len(unsubs)) \X (1..2) :
        /\ unsubs[i].registry = registry
        /\ a <= Len(unsubs[i].names)
        /\ unsubs[i].calls = 0}

(* C36: after any sequence of add() calls and calls of the functions they
   returned, the length of a registry is the number of its registrations
   that have not been revoked, an entry counted once for each topic it was
   added to; a registry nothing was added to has length 0. *)
C36_LengthCountsRegistrations ==
    \A registry \in Registries :
        length(store[registry]) = Cardinality(NotRevoked(registry))

----------------------------------------------------------------------------
(* Properties of what StoreExtensions.forEach() returns *)

\* the topic lists that a pass found for names the registry has no list for
NothingForAbsentTopics(began) ==
    \A p \in 1..Len(began) :
        began[p].name \notin DOMAIN store[began[p].stage] =>
            began[p].list = <<>>

(* C37: forEach() of a StoreExtensions registry (observers, handlers,
   subscribers) returns true exactly when it called at least one extension:
   extensionCalled is true in a pass exactly when the pass has invoked an
   entry, and the handlers' pass of a call is taken as unhandled exactly
   when it invoked no handler. A name the registry has no list for gives no
   entries and no error: what a call throws is what a callback threw or the
   UnhandledMutationError. *)
C37_ForEachTellsWhetherCalled ==
    /\ \A i \in 1..Len(stack) :
          /\ stack[i].stage \in {"observers", "handlers", "subscribers"} =>
                (stack[i].extensionCalled
                    <=> EntriesIn(stack[i].called, stack[i].stage) # <<>>)
          /\ NothingForAbsentTopics(stack[i].began)
    /\ Completed =>
          /\ done.unhandled >= 1 => EntriesIn(done.called, "handlers") = <<>>
          /\ (HandlersRan(done) /\ EntriesIn(done.called, "handlers") = <<>>)
                => done.unhandled = 1
          /\ NothingForAbsentTopics(done.began)
          /\ done.e # NoError =>
                done.e.kind = "UnhandledMutationError" \/ done.e.entry # NoEntry

\* a call whose handlers' pass found no list for any name and returned false,
\* and whose subscribers' pass called a subscriber
C37_Witness ==
    /\ RanThrough(done)
    /\ done.unhandled = 1
    /\ EntriesIn(done.called, "handlers") = <<>>
    /\ EntriesIn(done.called, "subscribers") # <<>>
    /\ \E p, q \in 1..Len(done.began) :
          /\ done.began[p].stage = "handlers"
          /\ done.began[p].name \notin DOMAIN store.handlers
          /\ done.began[q].stage = "subscribers"
          /\ done.began[q].name \notin DOMAIN store.subscribers

====
